---- MODULE Spec2Model ----
(***************************************************************************)
(* A model of remotedb.go of prolink-go: the registry of per-device        *)
(* connections to the remote database server (RemoteDB.conns), the         *)
(* connect/retry goroutine of each deviceConnection, and the track lookup  *)
(* (GetTrack / executeQuery / getMenuItems / getArtwork / sendMessage).    *)
(*                                                                         *)
(* Threads of control:                                                     *)
(*   - caller threads, which call GetTrack;                                *)
(*   - "dm", the DeviceManager goroutine delivering device-added and       *)
(*     device-removed notifications to openConnection / closeConnection;   *)
(*   - "main", which calls activate and deactivate;                        *)
(*   - one background goroutine per deviceConnection (ensureConnect).      *)
(* A panic or a fatal runtime error of any goroutine ends the process:     *)
(* `crash` then names it and no action is enabled any more.                *)
(***************************************************************************)
EXTENDS Integers, Sequences, FiniteSets, TLC

\* ------------------------------------------------------------------ bounds
\* GetTrack calls made in a run, over all caller threads.
MaxCalls == 2
\* Device-added / device-removed notifications delivered in a run.
MaxEvents == 1
\* Network faults (failed handshakes, failed writes, EOFs, bad replies)
\* injected while the device is on the network.
MaxFaults == 1
\* Largest item count a setup response declares.
MaxItems == 1

\* ------------------------------------------------------------- the world
Callers == {"c1", "c2"}
Threads == Callers \cup {"dm", "main"}

\* Device identities; 1 and 2 are players, 3 is a mixer.
Devices == {1, 2, 3}
DevType(d) == IF d = 1 THEN "CDJ" ELSE IF d = 2 THEN "RB" ELSE "Mixer"

allowedDevices == {"RB", "CDJ"}

Slots == {"USB", "CD"}
TrackSlotCD == "CD"

VARIABLES
    conns,      \* RemoteDB.conns: DeviceID -> deviceConnection object, 0 = no entry
    connsLock,  \* RemoteDB.connsLock: "free" or the thread holding it
    heap,       \* the deviceConnection objects created so far, by object id
    th,         \* the state of each thread (position and locals)
    present,    \* the devices the DeviceManager lists as active
    listening,  \* the add/remove listeners are registered
    faults,     \* network faults that may still be injected
    ncalls,     \* GetTrack calls that may still be made
    nevents,    \* notifications that may still be delivered
    crash       \* "none", or the panic that ended the process

vars == <<conns, connsLock, heap, th, present, listening, faults, ncalls, nevents, crash>>

Objs == 1..Len(heap)

\* ---------------------------------------------------- deviceConnection
\* The struct, with the position of its ensureConnect goroutine (bg) and
\* history fields: closeCalled (Close has been entered), late (a connect
\* attempt was started after Close was entered), steps (the steps the last
\* connect attempt ran), failed (those of them at which the network
\* failed), sent (the transaction ids of the messages whose
\* Write succeeded), tried (the transaction ids stamped on the messages
\* handed to Write, whether the Write succeeded or failed).
deviceConnection(d) ==
    [device |-> d, lock |-> "free", conn |-> "nil", txCount |-> 1,
     disconnect |-> "nil", bg |-> "spawned",
     closeCalled |-> FALSE, late |-> FALSE,
     steps |-> <<>>, failed |-> {}, sent |-> <<>>, tried |-> <<>>]

IdleTh ==
    [pc |-> "idle", op |-> "none", dev |-> 0, slot |-> "none",
     lockRef |-> 0, unlockRef |-> 0, sub |-> "none", ph |-> 0, left |-> 0,
     sref |-> 0, txid |-> 0, count |-> 0, art |-> 0, items |-> {}, artwork |-> "none",
     err |-> "nil", res |-> "none", prev |-> "none", cref |-> 0, newc |-> 0, eofc |-> 0,
     todo |-> {}, tracked |-> {}, wire |-> {}, nsent |-> 0, nread |-> 0, seen |-> <<>>,
     resp |-> "none"]

Alive == crash = "none"

Panic(kind) ==
    /\ crash' = kind
    /\ UNCHANGED <<conns, connsLock, heap, th, present, listening, faults, ncalls, nevents>>

SetTh(t, r) == th' = [th EXCEPT ![t] = r]

\* ------------------------------------------------------------------ Init
\* newRemoteDB: an empty registry, no connection object, every thread
\* outside the package.
Fresh ==
    /\ conns = [d \in Devices |-> 0]
    /\ connsLock = "free"
    /\ heap = <<>>
    /\ th = [t \in Threads |-> IdleTh]
    /\ listening = FALSE
    /\ crash = "none"

\* Device 1, a player, is on the network when the program starts.
Init ==
    /\ Fresh
    /\ present = {1}
    /\ faults = MaxFaults
    /\ ncalls = MaxCalls
    /\ nevents = MaxEvents

\* ------------------------------------------------------------- connect
\* The steps of deviceConnection.connect, in program order.
ConnectSteps == <<"resolve", "dial", "preamble", "discard", "intro", "ack">>

\* Whether connect returns when the step fails. The result of
\* io.CopyN(ioutil.Discard, conn, 5) is dropped; every other step's error
\* is returned.
connectChecksError(step) == step # "discard"

RECURSIVE connectFrom(_, _)
connectFrom(i, F) ==
    IF i > Len(ConnectSteps) THEN [ran |-> <<>>, ok |-> TRUE]
    ELSE LET s == ConnectSteps[i] IN
         IF s \in F /\ connectChecksError(s)
         THEN [ran |-> <<s>>, ok |-> FALSE]
         ELSE LET r == connectFrom(i + 1, F)
              IN [ran |-> <<s>> \o r.ran, ok |-> r.ok]

\* connect, given the set F of steps at which the network fails: the steps
\* run, and whether dc.conn is assigned.
connect(F) == connectFrom(1, F)

StepSet == {ConnectSteps[i] : i \in 1..Len(ConnectSteps)}

\* The faults a connect attempt may meet: any while the device is off the
\* network, within the fault budget while it is on it.
MayFail(d, F) == d \notin present \/ Cardinality(F) <= faults
FaultCost(d, F) == IF d \in present THEN Cardinality(F) ELSE 0

\* --------------------------------------------- the ensureConnect goroutine
\* ensureConnect's first statements: make the disconnect channel, create
\* the ticker, and enter the immediate connect().
EnsureStart(c) ==
    /\ Alive
    /\ c \in Objs
    /\ heap[c].bg = "spawned"
    /\ heap' = [heap EXCEPT ![c].disconnect = "open0",
                            ![c].bg = "inflight",
                            ![c].late = @ \/ heap[c].closeCalled]
    /\ UNCHANGED <<conns, connsLock, th, present, listening, faults, ncalls, nevents, crash>>

\* A connect() in flight returns: dc.conn is assigned on success and the
\* loop `for dc.conn == nil && !dc.tryConnect(ticker)` is left; on failure
\* the goroutine goes to the select of tryConnect.
ConnectReturn(c, F) ==
    /\ Alive
    /\ c \in Objs
    /\ heap[c].bg = "inflight"
    /\ F \subseteq StepSet
    /\ MayFail(heap[c].device, F)
    /\ LET r == connect(F) IN
       heap' = [heap EXCEPT ![c].conn = IF r.ok THEN "open" ELSE @,
                            ![c].bg = IF r.ok THEN "done" ELSE "select",
                            ![c].steps = r.ran,
                            ![c].failed = {r.ran[i] : i \in 1..Len(r.ran)} \cap F]
    /\ faults' = faults - FaultCost(heap[c].device, F)
    /\ UNCHANGED <<conns, connsLock, th, present, listening, ncalls, nevents, crash>>

\* A receive is ready on a channel holding a value or closed.
RecvReady(ch) == ch \in {"open1", "closed1", "closed0"}
AfterRecv(ch) == IF ch = "open1" THEN "open0" ELSE "closed0"

\* tryConnect, case <-dc.disconnect: return true, the loop ends.
SelectDisconnect(c) ==
    /\ Alive
    /\ c \in Objs
    /\ heap[c].bg = "select"
    /\ RecvReady(heap[c].disconnect)
    /\ heap' = [heap EXCEPT ![c].disconnect = AfterRecv(@), ![c].bg = "done"]
    /\ UNCHANGED <<conns, connsLock, th, present, listening, faults, ncalls, nevents, crash>>

\* tryConnect, case <-ticker.C: another connect() starts.
SelectTick(c) ==
    /\ Alive
    /\ c \in Objs
    /\ heap[c].bg = "select"
    /\ heap' = [heap EXCEPT ![c].bg = "inflight",
                            ![c].late = @ \/ heap[c].closeCalled]
    /\ UNCHANGED <<conns, connsLock, th, present, listening, faults, ncalls, nevents, crash>>

\* ------------------------------------------------------- Close, in two steps
\* if dc.disconnect != nil { dc.disconnect <- true; close(dc.disconnect) }
\* The channel has capacity 1. A send on a closed channel panics.
CloseSignalPanics(c) == heap[c].disconnect \in {"closed1", "closed0"}
CloseSignal(c) ==
    [heap EXCEPT ![c].disconnect = IF @ = "nil" THEN "nil" ELSE "closed1",
                 ![c].closeCalled = TRUE]

\* if dc.conn != nil { dc.conn.Close(); dc.conn = nil }
CloseSocket(c) == [heap EXCEPT ![c].conn = "nil"]

\* -------------------------------------------------------------- IsLinked
\* (a variant that forgets the socket check)
IsLinkedTracked(d) == conns[d] # 0

\* ok && devConn.conn != nil
IsLinked(d) == conns[d] # 0 /\ heap[conns[d]].conn # "nil"

\* -------------------------------------------------------------- messages
\* What readMessagePacket returns: the message type, whether arguments[1]
\* is a fieldNumber04 (and its value n), whether arguments[3] is a
\* fieldBinary, and for a menu item its item type (tag) and payload (val;
\* the artwork id in the case of the title item).
Response(n) ==
    [type |-> "response", num |-> TRUE, n |-> n, bin |-> FALSE, tag |-> "none", val |-> 0]
MenuItem(tag, v) ==
    [type |-> "menuitem", num |-> FALSE, n |-> 0, bin |-> FALSE, tag |-> tag, val |-> v]
MenuEdge ==
    [type |-> "menuedge", num |-> FALSE, n |-> 0, bin |-> FALSE, tag |-> "none", val |-> 0]
ArtworkReply ==
    [type |-> "response", num |-> TRUE, n |-> 0, bin |-> TRUE, tag |-> "none", val |-> 0]

msgTypeResponse == "response"
msgTypeMenuItem == "menuitem"
itemTypeTitle == "title"
itemTypePath == "path"

\* items[item.itemType] = item
PutItem(items, m) == {p \in items : p[1] # m.tag} \cup {<<m.tag, m.val>>}
HasItem(items, tag) == \E p \in items : p[1] = tag
ItemVal(items, tag) == (CHOOSE p \in items : p[1] = tag)[2]

\* ---------------------------------------------------------------- GetTrack
\* (a variant without the CD check)
GetTrackEntryNoCD(linked, slot) ==
    IF ~linked THEN "NotLinked" ELSE "query"

\* The checks GetTrack makes before it queries, in the order it makes them.
GetTrackEntry(linked, slot) ==
    IF ~linked THEN "NotLinked"
    ELSE IF slot = TrackSlotCD THEN "CD"
    ELSE "query"

GetTrack(t, d, slot) ==
    /\ Alive
    /\ t \in Callers
    /\ th[t].pc = "idle"
    /\ ncalls > 0
    /\ ncalls' = ncalls - 1
    /\ LET e == GetTrackEntry(IsLinked(d), slot)
           q == [IdleTh EXCEPT !.op = "GetTrack", !.dev = d, !.slot = slot, !.prev = th[t].res]
       IN IF e = "query"
          THEN SetTh(t, [q EXCEPT !.pc = "eq_eval"])
          ELSE SetTh(t, [q EXCEPT !.res = e])
    /\ UNCHANGED <<conns, connsLock, heap, present, listening, faults, nevents, crash>>

\* (a variant in which every lookup takes the mutex of the first
\* connection, whatever its device)
EqEvalShared(t) ==
    /\ Alive
    /\ th[t].pc = "eq_eval"
    /\ SetTh(t, [th[t] EXCEPT !.pc = "eq_lock", !.lockRef = 1])
    /\ UNCHANGED <<conns, connsLock, heap, present, listening, faults, ncalls, nevents, crash>>

\* executeQuery: rd.conns[q.DeviceID].lock.Lock() evaluates the registry
\* entry, then blocks until that object's mutex is free.
EqEval(t) ==
    /\ Alive
    /\ th[t].pc = "eq_eval"
    /\ IF conns[th[t].dev] = 0
       THEN Panic("nil dereference")
       ELSE /\ SetTh(t, [th[t] EXCEPT !.pc = "eq_lock", !.lockRef = conns[th[t].dev]])
            /\ UNCHANGED <<conns, connsLock, heap, present, listening, faults, ncalls, nevents, crash>>

EqLock(t) ==
    /\ Alive
    /\ th[t].pc = "eq_lock"
    /\ heap[th[t].lockRef].lock = "free"
    /\ heap' = [heap EXCEPT ![th[t].lockRef].lock = t]
    /\ SetTh(t, [th[t] EXCEPT !.pc = "eq_defer"])
    /\ UNCHANGED <<conns, connsLock, present, listening, faults, ncalls, nevents, crash>>

\* defer rd.conns[q.DeviceID].lock.Unlock(): the receiver is evaluated
\* when the defer statement runs. Then queryTrackMetadata begins.
EqDefer(t) ==
    /\ Alive
    /\ th[t].pc = "eq_defer"
    /\ IF conns[th[t].dev] = 0
       THEN Panic("nil dereference")
       ELSE /\ SetTh(t, [th[t] EXCEPT !.pc = "sm_stamp", !.unlockRef = conns[th[t].dev],
                                      !.sub = "meta", !.ph = 1])
            /\ UNCHANGED <<conns, connsLock, heap, present, listening, faults, ncalls, nevents, crash>>

\* sendMessage: devConn := rd.conns[devID]; m.setTransactionID(devConn.txCount)
SmStamp(t) ==
    /\ Alive
    /\ th[t].pc = "sm_stamp"
    /\ IF conns[th[t].dev] = 0
       THEN Panic("nil dereference")
       ELSE /\ SetTh(t, [th[t] EXCEPT !.pc = "sm_write", !.sref = conns[th[t].dev],
                                      !.txid = heap[conns[th[t].dev]].txCount])
            /\ UNCHANGED <<conns, connsLock, heap, present, listening, faults, ncalls, nevents, crash>>

\* The transaction counter after a message has been written: txCount++.
\* (txCount is a uint32; its wrap at 2^32 lies beyond the integers TLC has
\* and beyond any run of MaxCalls lookups, so the counter is not reduced.)
NextTx(n) == n + 1

\* (a variant that reads one entry less)
AfterSendShort(me) ==
    IF me.ph = 2
    THEN [me EXCEPT !.pc = "rd", !.left = me.count + 1, !.items = {}, !.seen = <<>>]
    ELSE [me EXCEPT !.pc = "rd"]

\* Where a lookup goes after a message was sent: to read the reply, or
\* (render request) to read count + 2 entries into an empty map. `seen`
\* records the messages the render loop reads (history).
AfterSend(me) ==
    IF me.ph = 2
    THEN [me EXCEPT !.pc = "rd", !.left = me.count + 2, !.items = {}, !.seen = <<>>]
    ELSE [me EXCEPT !.pc = "rd"]

\* sendMessage: devConn.conn.Write(m.bytes()) succeeds; devConn.txCount++.
\* After the render request, entryCount is computed from the setup
\* response (a type assertion on arguments[1]).
SmWrite(t) ==
    /\ Alive
    /\ th[t].pc = "sm_write"
    /\ LET me == th[t]
           c == me.sref
       IN IF heap[c].conn = "nil"
          THEN Panic("nil dereference")
          ELSE IF me.ph = 2 /\ me.count < 0
          THEN Panic("type assertion")
          ELSE /\ heap' = [heap EXCEPT ![c].txCount = NextTx(@),
                                       ![c].sent = Append(@, me.txid),
                                       ![c].tried = Append(@, me.txid)]
               /\ SetTh(t, [AfterSend(me) EXCEPT !.wire = @ \cup {c}, !.nsent = @ + 1])
               /\ UNCHANGED <<conns, connsLock, present, listening, faults, ncalls, nevents, crash>>

\* sendMessage: the write of the stamped message fails; txCount is left as
\* it was and the error is returned up to GetTrack.
SmWriteFail(t) ==
    /\ Alive
    /\ th[t].pc = "sm_write"
    /\ heap[th[t].sref].conn # "nil"
    /\ faults > 0
    /\ faults' = faults - 1
    /\ heap' = [heap EXCEPT ![th[t].sref].tried = Append(@, th[t].txid)]
    /\ SetTh(t, [th[t] EXCEPT !.pc = "eq_ret", !.err = "err", !.wire = {}])
    /\ UNCHANGED <<conns, connsLock, present, listening, ncalls, nevents, crash>>

\* What a lookup does with the message m it has read, by where it is:
\* getMenuItems' setup phase (type check, item count), its render loop
\* (menu items are indexed by item type, other messages skipped), the end
\* of queryTrackMetadata and of queryTrackPath, and getArtwork.
\* (a variant without the check of the response's type)
AfterSetupUnchecked(me, m) ==
    [me EXCEPT !.pc = "sm_stamp", !.ph = 2, !.count = IF m.num THEN m.n ELSE -1,
               !.resp = m.type]

\* `resp` records the type of the message read as the setup response of
\* the menu query in progress (history).
AfterSetup(me, m) ==
    IF m.type # msgTypeResponse
    THEN [me EXCEPT !.pc = "eq_ret", !.err = "proto", !.wire = {}, !.resp = m.type]
    ELSE [me EXCEPT !.pc = "sm_stamp", !.ph = 2, !.count = IF m.num THEN m.n ELSE -1,
                    !.resp = m.type]

RenderItems(items, m) == IF m.type = msgTypeMenuItem THEN PutItem(items, m) ELSE items

\* What is recorded of a message the render loop has read: its type and,
\* of a menu item, its item type and payload.
Seen(m) == [type |-> m.type, tag |-> m.tag, val |-> m.val]

AfterEntry(me, m) ==
    LET its == RenderItems(me.items, m)
        got == [me EXCEPT !.items = its, !.seen = Append(@, Seen(m))]
    IN
    IF me.left > 1
    THEN [got EXCEPT !.left = @ - 1]
    ELSE IF me.sub = "meta"
    THEN [got EXCEPT !.left = 0, !.pc = "sm_stamp", !.sub = "path", !.ph = 1, !.resp = "none",
                     !.art = ItemVal(its, itemTypeTitle)]
    ELSE [got EXCEPT !.left = 0, !.pc = "sm_stamp", !.sub = "art", !.ph = 1, !.resp = "none"]

AfterArtwork(me, m) ==
    [me EXCEPT !.pc = "eq_ret", !.err = "nil", !.artwork = "bytes", !.wire = {}]

\* readMessagePacket(rd.conns[devID].conn) returns the message m.
Read(t, m) ==
    /\ Alive
    /\ th[t].pc = "rd"
    /\ LET me == th[t]
           c == conns[me.dev]
           got == [me EXCEPT !.wire = @ \cup {c}, !.nread = @ + 1]
       IN IF c = 0 \/ heap[c].conn = "nil"
          THEN Panic("nil dereference")
          ELSE IF me.sub = "art"
          THEN IF ~m.bin
               THEN Panic("type assertion")
               ELSE /\ SetTh(t, AfterArtwork(got, m))
                    /\ UNCHANGED <<conns, connsLock, heap, present, listening, faults, ncalls, nevents, crash>>
          ELSE IF me.ph = 1
          THEN /\ SetTh(t, AfterSetup(got, m))
               /\ UNCHANGED <<conns, connsLock, heap, present, listening, faults, ncalls, nevents, crash>>
          ELSE IF me.left = 1 /\ me.sub = "meta" /\ ~HasItem(RenderItems(me.items, m), itemTypeTitle)
          THEN Panic("nil dereference")
          ELSE /\ SetTh(t, AfterEntry(got, m))
               /\ UNCHANGED <<conns, connsLock, heap, present, listening, faults, ncalls, nevents, crash>>

\* readMessagePacket fails with io.EOF (the device closed the stream) or
\* with another error; the error is returned up to GetTrack.
ReadFail(t, e) ==
    /\ Alive
    /\ th[t].pc = "rd"
    /\ e \in {"EOF", "err"}
    /\ conns[th[t].dev] # 0
    /\ heap[conns[th[t].dev]].conn # "nil"
    /\ faults > 0
    /\ faults' = faults - 1
    /\ SetTh(t, [th[t] EXCEPT !.pc = "eq_ret", !.err = e, !.wire = {}, !.nread = @ + 1,
                              !.eofc = IF e = "EOF" THEN conns[th[t].dev] ELSE 0])
    /\ UNCHANGED <<conns, connsLock, heap, present, listening, ncalls, nevents, crash>>

\* A thread that has returned from GetTrack: its locals are gone; what is
\* kept is the call's arguments and result (and, in prev, the result of
\* the thread's call before this one), and which objects the call's
\* refresh touched (history, for the properties).
Returned(me, res) ==
    [IdleTh EXCEPT !.op = me.op, !.dev = me.dev, !.slot = me.slot, !.res = res,
                   !.artwork = me.artwork, !.art = me.art,
                   !.cref = me.cref, !.newc = me.newc, !.eofc = me.eofc]

\* What GetTrack does with executeQuery's error: refresh on io.EOF.
RefreshOn(err) == err = "EOF"

\* executeQuery returns: the deferred Unlock runs on the mutex the defer
\* statement evaluated; then GetTrack either returns or, on io.EOF, goes on
\* to refreshConnection.
EqRet(t) ==
    /\ Alive
    /\ th[t].pc = "eq_ret"
    /\ LET me == th[t] IN
       IF heap[me.unlockRef].lock = "free"
       THEN Panic("unlock of unlocked mutex")
       ELSE /\ heap' = [heap EXCEPT ![me.unlockRef].lock = "free"]
            /\ IF RefreshOn(me.err)
               THEN SetTh(t, [me EXCEPT !.pc = "rf_dev"])
               ELSE SetTh(t, Returned(me, IF me.err = "nil" THEN "Track" ELSE me.err))
            /\ UNCHANGED <<conns, connsLock, present, listening, faults, ncalls, nevents, crash>>

\* rd.refreshConnection(rd.conns[q.DeviceID].device): the argument is
\* evaluated first.
RfDev(t) ==
    /\ Alive
    /\ th[t].pc = "rf_dev"
    /\ IF conns[th[t].dev] = 0
       THEN Panic("nil dereference")
       ELSE /\ SetTh(t, [th[t] EXCEPT !.pc = "cc_check"])
            /\ UNCHANGED <<conns, connsLock, heap, present, listening, faults, ncalls, nevents, crash>>

\* ------------------------------------------- closeConnection, openConnection
\* Where a thread goes when closeConnection returns: on to openConnection
\* in refreshConnection, back to deactivate's loop, or out of the
\* device-removed listener.
AfterClose(me) ==
    IF me.op = "GetTrack" THEN [me EXCEPT !.pc = "oc_new"]
    ELSE IF me.op = "deactivate" THEN [me EXCEPT !.pc = "deact_loop"]
    ELSE [IdleTh EXCEPT !.op = me.op]

\* Where a thread goes when openConnection returns: GetTrack returns the
\* io.EOF, activate goes on with its loop, the device-added listener ends.
AfterOpen(me) ==
    IF me.op = "GetTrack" THEN Returned(me, me.err)
    ELSE IF me.op = "activate" THEN [me EXCEPT !.pc = "act_loop"]
    ELSE [IdleTh EXCEPT !.op = me.op]

\* closeConnection: if _, ok := rd.conns[dev.ID]; !ok { return }
CcCheck(t) ==
    /\ Alive
    /\ th[t].pc = "cc_check"
    /\ IF conns[th[t].dev] = 0
       THEN SetTh(t, AfterClose(th[t]))
       ELSE SetTh(t, [th[t] EXCEPT !.pc = "cc_sig"])
    /\ UNCHANGED <<conns, connsLock, heap, present, listening, faults, ncalls, nevents, crash>>

\* rd.conns[dev.ID].Close(): the entry is looked up again; Close first
\* signals and closes the disconnect channel.
CcSig(t) ==
    /\ Alive
    /\ th[t].pc = "cc_sig"
    /\ LET c == conns[th[t].dev] IN
       IF c = 0
       THEN Panic("nil dereference")
       ELSE IF CloseSignalPanics(c)
       THEN Panic("send on closed channel")
       ELSE /\ heap' = CloseSignal(c)
            /\ SetTh(t, [th[t] EXCEPT !.pc = "cc_sock", !.cref = c])
            /\ UNCHANGED <<conns, connsLock, present, listening, faults, ncalls, nevents, crash>>

\* Close, second half: close the socket and clear dc.conn.
CcSock(t) ==
    /\ Alive
    /\ th[t].pc = "cc_sock"
    /\ heap' = CloseSocket(th[t].cref)
    /\ SetTh(t, [th[t] EXCEPT !.pc = "cc_lock"])
    /\ UNCHANGED <<conns, connsLock, present, listening, faults, ncalls, nevents, crash>>

\* rd.connsLock.Lock()
CcLock(t) ==
    /\ Alive
    /\ th[t].pc = "cc_lock"
    /\ connsLock = "free"
    /\ connsLock' = t
    /\ SetTh(t, [th[t] EXCEPT !.pc = "cc_del"])
    /\ UNCHANGED <<conns, heap, present, listening, faults, ncalls, nevents, crash>>

\* delete(rd.conns, dev.ID), and the deferred rd.connsLock.Unlock()
CcDel(t) ==
    /\ Alive
    /\ th[t].pc = "cc_del"
    /\ conns' = [conns EXCEPT ![th[t].dev] = 0]
    /\ connsLock' = "free"
    /\ SetTh(t, AfterClose(th[t]))
    /\ UNCHANGED <<heap, present, listening, faults, ncalls, nevents, crash>>

\* openConnection: devices of other types are ignored; else a new
\* deviceConnection is made and Open() starts its goroutine.
OcNew(t) ==
    /\ Alive
    /\ th[t].pc = "oc_new"
    /\ IF DevType(th[t].dev) \notin allowedDevices
       THEN /\ SetTh(t, AfterOpen(th[t]))
            /\ UNCHANGED heap
       ELSE /\ heap' = Append(heap, deviceConnection(th[t].dev))
            /\ SetTh(t, [th[t] EXCEPT !.pc = "oc_lock", !.newc = Len(heap) + 1])
    /\ UNCHANGED <<conns, connsLock, present, listening, faults, ncalls, nevents, crash>>

OcLock(t) ==
    /\ Alive
    /\ th[t].pc = "oc_lock"
    /\ connsLock = "free"
    /\ connsLock' = t
    /\ SetTh(t, [th[t] EXCEPT !.pc = "oc_reg"])
    /\ UNCHANGED <<conns, heap, present, listening, faults, ncalls, nevents, crash>>

\* rd.conns[dev.ID] = conn, and the deferred rd.connsLock.Unlock()
OcReg(t) ==
    /\ Alive
    /\ th[t].pc = "oc_reg"
    /\ conns' = [conns EXCEPT ![th[t].dev] = th[t].newc]
    /\ connsLock' = "free"
    /\ SetTh(t, AfterOpen(th[t]))
    /\ UNCHANGED <<heap, present, listening, faults, ncalls, nevents, crash>>

\* ------------------------------------------------ the DeviceManager's events
\* A device appears on the network: the device-added listener,
\* openConnection, runs on the DeviceManager's goroutine.
DeviceAdded(d) ==
    /\ Alive
    /\ listening
    /\ th["dm"].pc = "idle"
    /\ d \notin present
    /\ nevents > 0
    /\ nevents' = nevents - 1
    /\ present' = present \cup {d}
    /\ SetTh("dm", [IdleTh EXCEPT !.op = "added", !.dev = d, !.pc = "oc_new"])
    /\ UNCHANGED <<conns, connsLock, heap, listening, faults, ncalls, crash>>

\* A device disappears: the device-removed listener, closeConnection.
DeviceRemoved(d) ==
    /\ Alive
    /\ listening
    /\ th["dm"].pc = "idle"
    /\ d \in present
    /\ nevents > 0
    /\ nevents' = nevents - 1
    /\ present' = present \ {d}
    /\ SetTh("dm", [IdleTh EXCEPT !.op = "removed", !.dev = d, !.pc = "cc_check"])
    /\ UNCHANGED <<conns, connsLock, heap, listening, faults, ncalls, crash>>

\* ------------------------------------------------------ activate, deactivate
\* activate: for _, dev := range dm.ActiveDeviceMap() { rd.openConnection(dev) }
Activate ==
    /\ Alive
    /\ th["main"].pc = "idle"
    /\ th["main"].op = "none"
    /\ SetTh("main", [IdleTh EXCEPT !.op = "activate", !.pc = "act_loop", !.todo = present])
    /\ UNCHANGED <<conns, connsLock, heap, present, listening, faults, ncalls, nevents, crash>>

ActNext(d) ==
    /\ Alive
    /\ th["main"].pc = "act_loop"
    /\ d \in th["main"].todo
    /\ SetTh("main", [th["main"] EXCEPT !.pc = "oc_new", !.dev = d, !.todo = @ \ {d}])
    /\ UNCHANGED <<conns, connsLock, heap, present, listening, faults, ncalls, nevents, crash>>

\* dm.OnDeviceAdded(...); dm.OnDeviceRemoved(...)
ActListen ==
    /\ Alive
    /\ th["main"].pc = "act_loop"
    /\ th["main"].todo = {}
    /\ listening' = TRUE
    /\ SetTh("main", [IdleTh EXCEPT !.op = "activate"])
    /\ UNCHANGED <<conns, connsLock, heap, present, faults, ncalls, nevents, crash>>

\* deactivate: the listeners are removed, then
\* for _, conn := range rd.conns { rd.closeConnection(conn.device) }.
\* `todo` holds the keys the range has yet to produce; `tracked` records
\* the connections the registry held when deactivate began (history).
Deactivate ==
    /\ Alive
    /\ th["main"].pc = "idle"
    /\ th["main"].op = "activate"
    /\ listening' = FALSE
    /\ SetTh("main", [IdleTh EXCEPT !.op = "deactivate", !.pc = "deact_loop",
                                    !.todo = {d \in Devices : conns[d] # 0},
                                    !.tracked = {conns[d] : d \in {e \in Devices : conns[e] # 0}}])
    /\ UNCHANGED <<conns, connsLock, heap, present, faults, ncalls, nevents, crash>>

\* The range produces the next key still in the map (a key deleted before
\* it is reached is not produced).
DeactNext(d) ==
    /\ Alive
    /\ th["main"].pc = "deact_loop"
    /\ d \in th["main"].todo
    /\ IF conns[d] = 0
       THEN SetTh("main", [th["main"] EXCEPT !.todo = @ \ {d}])
       ELSE SetTh("main", [th["main"] EXCEPT !.pc = "cc_check", !.dev = d, !.todo = @ \ {d}])
    /\ UNCHANGED <<conns, connsLock, heap, present, listening, faults, ncalls, nevents, crash>>

DeactDone ==
    /\ Alive
    /\ th["main"].pc = "deact_loop"
    /\ th["main"].todo = {}
    /\ SetTh("main", [IdleTh EXCEPT !.op = "deactivate", !.tracked = th["main"].tracked])
    /\ UNCHANGED <<conns, connsLock, heap, present, listening, faults, ncalls, nevents, crash>>

\* ------------------------------------------------------------ specifications
\* The steps of a lookup that meets no fault.
Lookup(t) ==
    \/ EqEval(t) \/ EqLock(t) \/ EqDefer(t)
    \/ SmStamp(t) \/ SmWrite(t)
    \/ EqRet(t)

\* The steps of closeConnection and of openConnection.
Registry(t) ==
    \/ CcCheck(t) \/ CcSig(t) \/ CcSock(t) \/ CcLock(t) \/ CcDel(t)
    \/ OcNew(t) \/ OcLock(t) \/ OcReg(t)

\* The steps of a thread inside GetTrack, openConnection, closeConnection.
Step(t) ==
    \/ Lookup(t)
    \/ SmWriteFail(t)
    \/ RfDev(t)
    \/ Registry(t)

\* The steps of a connection's goroutine, with handshake faults from Fs.
Background(c, Fs) ==
    \/ EnsureStart(c)
    \/ \E F \in Fs : ConnectReturn(c, F)
    \/ SelectDisconnect(c)
    \/ SelectTick(c)

Main ==
    \/ Activate
    \/ \E d \in Devices : ActNext(d)
    \/ ActListen
    \/ Deactivate
    \/ \E d \in Devices : DeactNext(d)
    \/ DeactDone

\* The replies a device that follows the protocol gives to the request
\* the reader last sent: a response declaring MaxItems items; a menu header,
\* the items and a menu footer; the artwork.
Polite(me) ==
    IF me.sub = "art" THEN {ArtworkReply}
    ELSE IF me.ph = 1 THEN {Response(MaxItems)}
    ELSE IF me.left = me.count + 2 \/ me.left = 1 THEN {MenuEdge}
    ELSE IF me.sub = "meta" THEN {MenuItem(itemTypeTitle, 1)}
    ELSE {MenuItem(itemTypePath, 1)}

\* Any reply at all: also an empty menu, an entry that is no menu item, a
\* response whose count is no number.
AnyReply ==
    {Response(n) : n \in 0..MaxItems} \cup {ArtworkReply, MenuEdge}
    \cup {MenuItem(itemTypeTitle, a) : a \in {0, 1}} \cup {MenuItem(itemTypePath, 1)}
    \cup {[Response(0) EXCEPT !.num = FALSE]}

Next ==
    \/ \E t \in {"c1"}, d \in {1, 3}, s \in Slots : GetTrack(t, d, s)
    \/ \E t \in Threads : Step(t)
    \/ \E t \in Callers : \E m \in Polite(th[t]) : Read(t, m)
    \/ \E t \in Callers, e \in {"EOF", "err"} : ReadFail(t, e)
    \/ \E c \in Objs : Background(c, {{}, {"dial"}})
    \/ \E d \in {1, 3} : DeviceAdded(d)
    \/ \E d \in {1, 3} : DeviceRemoved(d)
    \/ Main

Spec == Init /\ [][Next]_vars

\* The state activate leaves with device 1 on the network: its connection
\* is tracked and its goroutine has been started.
Active ==
    /\ conns = [d \in Devices |-> IF d = 1 THEN 1 ELSE 0]
    /\ connsLock = "free"
    /\ heap = <<deviceConnection(1)>>
    /\ th = [t \in Threads |-> IF t = "main" THEN [IdleTh EXCEPT !.op = "activate"] ELSE IdleTh]
    /\ present = {1}
    /\ listening = TRUE
    /\ crash = "none"

\* The same once the goroutine has connected: device 1 is linked.
Linked ==
    /\ conns = [d \in Devices |-> IF d = 1 THEN 1 ELSE 0]
    /\ connsLock = "free"
    /\ heap = <<[deviceConnection(1) EXCEPT !.conn = "open", !.bg = "done",
                                            !.disconnect = "open0", !.steps = ConnectSteps]>>
    /\ th = [t \in Threads |-> IF t = "main" THEN [IdleTh EXCEPT !.op = "activate"] ELSE IdleTh]
    /\ present = {1}
    /\ listening = TRUE
    /\ crash = "none"

\* Two callers look up tracks on device 1 while the device leaves the
\* network and comes back; the network is free of faults.
TwoCalls == 2
TwoEvents == 2

InitTwo ==
    /\ Linked
    /\ faults = 0
    /\ ncalls = TwoCalls
    /\ nevents = TwoEvents

NextTwo ==
    \/ \E t \in Callers : GetTrack(t, 1, "USB")
    \/ \E t \in Callers : Lookup(t)
    \/ \E t \in Callers : \E m \in Polite(th[t]) : Read(t, m)
    \/ Registry("dm")
    \/ DeviceAdded(1)
    \/ DeviceRemoved(1)
    \/ \E c \in Objs : EnsureStart(c)
    \/ \E c \in Objs : ConnectReturn(c, {})

SpecTwo == InitTwo /\ [][NextTwo]_vars

\* One caller looks up tracks on device 1 while the device leaves the
\* network and comes back, and the device may drop the connection.
DmCalls == 2
DmEvents == 2
DmFaults == 1

InitDm ==
    /\ Active
    /\ faults = DmFaults
    /\ ncalls = DmCalls
    /\ nevents = DmEvents

NextDm ==
    \/ GetTrack("c1", 1, "USB")
    \/ \E t \in {"c1", "dm"} : Step(t)
    \/ \E m \in Polite(th["c1"]) : Read("c1", m)
    \/ ReadFail("c1", "EOF")
    \/ \E c \in Objs : Background(c, {{}, {"dial"}})
    \/ DeviceAdded(1)
    \/ DeviceRemoved(1)

SpecDm == InitDm /\ [][NextDm]_vars

\* Two callers look up tracks on device 1, which stays on the network and
\* accepts every handshake, but may drop a connection in mid-lookup. Every
\* goroutine that can take a step eventually takes one (the Go scheduler
\* starves no runnable goroutine); callers are free not to call.
FairCalls == 2
FairFaults == 1

InitFair ==
    /\ Linked
    /\ faults = FairFaults
    /\ ncalls = FairCalls
    /\ nevents = 0

Connects(c) == EnsureStart(c) \/ ConnectReturn(c, {})

Runs(t) ==
    \/ Step(t)
    \/ \E m \in Polite(th[t]) : Read(t, m)
    \/ ReadFail(t, "EOF")

NextFair ==
    \/ \E t \in Callers : GetTrack(t, 1, "USB")
    \/ \E t \in Callers : Runs(t)
    \/ \E c \in Objs : Connects(c)

SpecFair ==
    /\ InitFair
    /\ [][NextFair]_vars
    /\ \A t \in Callers : WF_vars(Runs(t))
    /\ \A c \in 1..(FairCalls + 1) : WF_vars(Connects(c))

\* Devices 1 and 2, both players, are on the network and linked; caller c1
\* looks up tracks on device 1 and caller c2 on device 2, and a device may
\* drop its connection in mid-lookup.
PairCalls == 3
PairFaults == 1

LinkedConn(d) ==
    [deviceConnection(d) EXCEPT !.conn = "open", !.bg = "done",
                                !.disconnect = "open0", !.steps = ConnectSteps]

InitPair ==
    /\ conns = [d \in Devices |-> IF d \in {1, 2} THEN d ELSE 0]
    /\ connsLock = "free"
    /\ heap = <<LinkedConn(1), LinkedConn(2)>>
    /\ th = [t \in Threads |-> IF t = "main" THEN [IdleTh EXCEPT !.op = "activate"] ELSE IdleTh]
    /\ present = {1, 2}
    /\ listening = TRUE
    /\ crash = "none"
    /\ faults = PairFaults
    /\ ncalls = PairCalls
    /\ nevents = 0

NextPair ==
    \/ GetTrack("c1", 1, "USB")
    \/ GetTrack("c2", 2, "USB")
    \/ \E t \in Callers : Runs(t)
    \/ \E c \in Objs : Connects(c)

SpecPair == InitPair /\ [][NextPair]_vars

\* One caller looks up tracks on device 1, linked, and the device answers
\* each read with any message at all, or drops the connection.
MenuCalls == 2
MenuFaults == 1

InitMenu ==
    /\ Linked
    /\ faults = MenuFaults
    /\ ncalls = MenuCalls
    /\ nevents = 0

NextMenu ==
    \/ GetTrack("c1", 1, "USB")
    \/ Step("c1")
    \/ \E m \in AnyReply : Read("c1", m)
    \/ \E e \in {"EOF", "err"} : ReadFail("c1", e)
    \/ \E c \in Objs : Connects(c)

SpecMenu == InitMenu /\ [][NextMenu]_vars

\* Device 1 leaves the network and comes back while connections to it are
\* being set up, and any steps of a handshake may fail.
ConnEvents == 2
ConnFaults == 2

InitConn ==
    /\ Active
    /\ faults = ConnFaults
    /\ ncalls = 0
    /\ nevents = ConnEvents

NextConn ==
    \/ Registry("dm")
    \/ DeviceAdded(1)
    \/ DeviceRemoved(1)
    \/ \E c \in Objs : Background(c, SUBSET StepSet)

SpecConn == InitConn /\ [][NextConn]_vars

\* ---------------------------------------------------------------- properties
\* A step in which thread t calls GetTrack for device d.
Calls(t, d) ==
    /\ th[t].pc = "idle"
    /\ ncalls' = ncalls - 1
    /\ th'[t].op = "GetTrack"
    /\ th'[t].dev = d

\* The call has returned res within the step, and nothing of the
\* connections was touched: the registry, its lock, every connection
\* object (socket, transaction counter, mutex, channel, ids written) and
\* the thread's own record of socket operations.
ReturnsUntouched(t, res) ==
    /\ th'[t].pc = "idle"
    /\ th'[t].res = res
    /\ th'[t].wire = {} /\ th'[t].nsent = 0 /\ th'[t].nread = 0
    /\ UNCHANGED <<conns, connsLock, heap, crash>>

Untracked(d) == conns[d] = 0 \/ heap[conns[d]].conn = "nil"

\* C1: a GetTrack for a device with no tracked connection, or whose
\* tracked connection has no socket, returns ErrDeviceNotLinked, and writes
\* to no socket, reads from none and changes no connection state.
C1_NotLinked ==
    [][\A t \in Callers, d \in Devices :
         (Calls(t, d) /\ Untracked(d)) => ReturnsUntouched(t, "NotLinked")]_vars

\* C1 happens: a call has returned NotLinked for a device that is tracked
\* but has no socket.
C1_Witness ==
    \E t \in Callers :
        /\ th[t].pc = "idle" /\ th[t].res = "NotLinked"
        /\ conns[th[t].dev] # 0 /\ heap[conns[th[t].dev]].conn = "nil"

\* C2 as stated: a GetTrack with the CD slot returns ErrCDUnsupported
\* without network I/O whatever the link state, linked or not.
C2_Original ==
    [][\A t \in Callers, d \in Devices :
         (Calls(t, d) /\ th'[t].slot = TrackSlotCD) => ReturnsUntouched(t, "CD")]_vars

\* C2, amended: a GetTrack with the CD slot attempts no network I/O and
\* changes no connection state whatever the link state; it returns
\* ErrCDUnsupported when the device is linked and ErrDeviceNotLinked when
\* it is not.
C2_Amended ==
    [][\A t \in Callers, d \in Devices :
         (Calls(t, d) /\ th'[t].slot = TrackSlotCD)
         => ReturnsUntouched(t, IF Untracked(d) THEN "NotLinked" ELSE "CD")]_vars

\* C2 happens: a call with the CD slot on a linked device returned
\* ErrCDUnsupported.
C2_Witness ==
    \E t \in Callers :
        /\ th[t].pc = "idle" /\ th[t].res = "CD" /\ th[t].slot = TrackSlotCD
        /\ IsLinked(th[t].dev)

\* The lookups that are between their first send and their last read on
\* the socket of connection object c.
OnWire(c) == {t \in Callers : c \in th[t].wire}

\* C3: on any one socket at most one lookup is between its first send and
\* its last read; the socket operations of two concurrent GetTrack calls
\* for the same device never interleave.
C3_NoInterleaving == \A c \in Objs : Cardinality(OnWire(c)) <= 1

\* Thread t returns from GetTrack with io.EOF in this step.
ReturnsEOF(t) == th[t].pc # "idle" /\ th'[t].pc = "idle" /\ th'[t].res = "EOF"

\* C4: once a sub-query has failed with io.EOF the lookup issues no further
\* socket operation, and when GetTrack returns the EOF the connection the
\* query failed on has been closed (Close called, socket cleared) and the
\* registry maps the device to the connection this call created, with
\* transaction counter 1 and its goroutine started.
C4_EofRefresh ==
    [][\A t \in Callers :
         /\ (th[t].err = "EOF" /\ th[t].pc # "idle")
                => th'[t].pc \notin {"sm_stamp", "sm_write", "rd"}
         /\ ReturnsEOF(t) =>
              /\ th'[t].eofc # 0
              /\ heap'[th'[t].eofc].closeCalled
              /\ heap'[th'[t].eofc].conn = "nil"
              /\ th'[t].newc # 0
              /\ th'[t].newc # th'[t].eofc
              /\ conns'[th'[t].dev] = th'[t].newc
              /\ heap'[th'[t].newc].txCount = 1
              /\ heap'[th'[t].newc].bg \in {"spawned", "inflight", "select", "done"}]_vars

\* The device is on the network and will accept every handshake and answer
\* every request from now on (no fault is left to happen).
Accepting(d) == d \in present /\ faults = 0

\* C5: after a GetTrack for device 1 has failed with io.EOF, if the device
\* accepts the handshake from then on and is not removed, IsLinked(1)
\* eventually becomes true; and a GetTrack issued after the failure that
\* finds the device linked returns a Track.
C5_Recovers ==
    /\ \A t \in Callers :
         (th[t].pc = "idle" /\ th[t].res = "EOF")
             ~> (IsLinked(1) \/ ~Accepting(1))
    /\ \A t \in Callers :
         (th[t].pc = "eq_eval" /\ th[t].prev = "EOF")
             ~> ((th[t].pc = "idle" /\ th[t].res = "Track") \/ ~Accepting(1))

\* C6: a second Close of a connection is a no-op: whichever threads call
\* Close and however often, no call ends in the panic of a send on the
\* already closed disconnect channel.
C6_CloseIdempotent == crash # "send on closed channel"

\* C7: once Close has been called on a connection, no connect attempt is
\* started for it any more (an attempt in flight at the time of the Close
\* may finish; none begins after it).
C7_RetryStops == \A c \in Objs : ~heap[c].late

\* C8: on every connection the transaction counter is 1 plus the number of
\* messages sent, and the ids stamped on the messages written to its
\* socket are strictly increasing, so that no id is used twice, also after
\* a write that failed.
C8_TxIds ==
    \A c \in Objs :
        /\ heap[c].txCount = 1 + Len(heap[c].sent)
        /\ \A i, j \in 1..Len(heap[c].tried) :
               i < j => heap[c].tried[i] < heap[c].tried[j]

\* A connection is live from Open until Close is called on it.
Live(c) == ~heap[c].closeCalled

\* C9: no device has two live connections at once.
C9_OneLive ==
    \A c1, c2 \in Objs :
        (Live(c1) /\ Live(c2) /\ heap[c1].device = heap[c2].device) => c1 = c2

\* C10: the process never crashes: no nil dereference, no send on a closed
\* channel, no unlock of an unlocked mutex, no failed type assertion.
C10_NoCrash == crash = "none"

\* Lookup b is stalled in the middle of its exchange: it holds its
\* connection's mutex and waits for the device's reply.
Stalled(b) == th[b].pc = "rd"

\* C11: two lookups on different devices do not block each other: a lookup
\* waiting for a connection's mutex never waits for one held by a lookup
\* on another device, and while a lookup on one device is stalled in its
\* exchange, a lookup in progress on another device can take its next step.
C11_Independent ==
    \A a, b \in Callers :
        (Alive /\ th[a].pc # "idle" /\ th[b].pc # "idle" /\ th[a].dev # th[b].dev) =>
            /\ th[a].pc = "eq_lock" => heap[th[a].lockRef].lock # b
            /\ Stalled(b) => ENABLED Runs(a)

\* C11 happens: the lookups on device 1 and on device 2 are in their
\* exchanges at the same time, each holding the mutex of its own connection,
\* the one on device 1 at its last read while the one on device 2 waits
\* for its first reply.
C11_Witness ==
    /\ Stalled("c2") /\ th["c2"].nread = 0 /\ heap[2].lock = "c2"
    /\ Stalled("c1") /\ th["c1"].sub = "art" /\ heap[1].lock = "c1"

\* No operation of the package is in progress: every thread is outside
\* GetTrack, activate, deactivate and the notification listeners.
Quiet == Alive /\ \A t \in Threads : th[t].pc = "idle"

\* C12: a device of a type that is not allowed never gets a connection
\* object, and once activate has run, whenever no operation is in
\* progress the registry has an entry for a device exactly when the device
\* is of an allowed type and on the network.
C12_Registry ==
    /\ \A c \in Objs : DevType(heap[c].device) \in allowedDevices
    /\ (Quiet /\ th["main"].op = "activate") =>
           \A d \in Devices :
               conns[d] # 0 <=> (d \in present /\ DevType(d) \in allowedDevices)

\* deactivate has returned.
Deactivated == th["main"].pc = "idle" /\ th["main"].op = "deactivate"

\* C13: once deactivate has returned the registry is empty, and every
\* connection that was tracked when deactivate began has been closed: its
\* disconnect channel has been signalled and closed, it holds no socket,
\* and no connect attempt was started for it after its Close.
C13_Deactivate ==
    Deactivated =>
        /\ \A d \in Devices : conns[d] = 0
        /\ \A c \in th["main"].tracked :
               /\ heap[c].closeCalled
               /\ heap[c].disconnect \in {"closed1", "closed0"}
               /\ heap[c].conn = "nil"
               /\ ~heap[c].late

\* C14: a lookup that has sent its artwork request captured a non-zero
\* artwork id in the metadata step; a lookup whose artwork id is zero
\* returns a Track without artwork.
C14_ArtworkIfId ==
    \A t \in Callers :
        /\ (th[t].sub = "art" /\ th[t].pc = "rd") => th[t].art # 0
        /\ (th[t].pc = "idle" /\ th[t].res = "Track" /\ th[t].art = 0)
               => th[t].artwork = "none"

\* The map a sequence of messages amounts to: for each item type, the
\* last menu item of that type in the sequence.
LastPerTag(seq) ==
    LET isItem(i) == seq[i].type = msgTypeMenuItem
        last(i) == \A k \in (i + 1)..Len(seq) : ~(isItem(k) /\ seq[k].tag = seq[i].tag)
    IN {<<seq[i].tag, seq[i].val>> : i \in {j \in 1..Len(seq) : isItem(j) /\ last(j)}}

\* The menu query of the lookup's previous step has returned its items
\* (the lookup is now in the setup phase of its path or artwork step).
RenderDone(me) == me.ph = 1 /\ me.sub \in {"path", "art"}

\* C15: a render phase whose setup response declared N items reads
\* exactly N + 2 messages, and its result maps each item type to the last
\* menu item read with that type, messages of other types being skipped;
\* no item type appears twice.
C15_Render ==
    \A t \in Callers :
        /\ th[t].items = LastPerTag(th[t].seen)
        /\ \A p, q \in th[t].items : p[1] = q[1] => p = q
        /\ RenderDone(th[t]) => Len(th[t].seen) = th[t].count + 2

\* C15 happens: a render phase declared to hold one item has returned
\* after reading two title items with different payloads and a message
\* that is no menu item.
C15_Witness ==
    \E t \in Callers :
        /\ RenderDone(th[t]) /\ th[t].count = 1 /\ Len(th[t].seen) = 3
        /\ th[t].seen[1] = Seen(MenuItem(itemTypeTitle, 0))
        /\ th[t].seen[2] = Seen(MenuItem(itemTypeTitle, 1))
        /\ th[t].seen[3].type # msgTypeMenuItem
        /\ th[t].items = {<<itemTypeTitle, 1>>}

\* The message read as the setup response of t's menu query was not of the
\* response type.
BadSetup(t) == th[t].resp \notin {"none", msgTypeResponse}

\* The messages a lookup has sent and read when the setup response of its
\* metadata query, or of its path query, has just been read.
SetupSent(me) == IF me.sub = "meta" THEN 1 ELSE 3
SetupRead(me) == IF me.sub = "meta" THEN 1 ELSE me.count + 4

\* C16: a menu query sends its setup request before it reads; when the
\* setup response is not of the response type the query fails with a
\* protocol error having sent that one request and read that one message,
\* with the transaction counter one past the request's id, and the lookup
\* then returns the error without sending or reading anything more.
C16_SetupCheck ==
    [][\A t \in Callers :
         /\ (th'[t].ph = 1 /\ th'[t].pc = "rd" /\ th'[t].sub = "meta")
                => (th'[t].nsent = 1 /\ th'[t].nread = 0)
         /\ BadSetup(t)' =>
                /\ th'[t].pc = "eq_ret" /\ th'[t].err = "proto"
                /\ th'[t].nsent = SetupSent(th'[t])
                /\ th'[t].nread = SetupRead(th'[t])
                /\ heap'[th'[t].sref].txCount = th'[t].txid + 1
         /\ BadSetup(t) =>
                /\ th'[t].pc = "idle" /\ th'[t].res = "proto"
                /\ \A c \in Objs : /\ heap'[c].tried = heap[c].tried
                                    /\ heap'[c].txCount = heap[c].txCount]_vars

\* C16 happens: a lookup has returned the protocol error of its path
\* query's setup phase, its connection having carried three messages.
C16_Witness ==
    \E t \in Callers :
        /\ th[t].pc = "idle" /\ th[t].res = "proto"
        /\ \E c \in Objs : heap[c].tried = <<1, 2, 3>> /\ heap[c].txCount = 4

\* The connect attempt of connection c returns in this step.
AttemptReturns(c) == c \in Objs /\ heap[c].bg = "inflight" /\ heap'[c].bg # "inflight"

\* The steps of connect up to and including step s.
UpTo(s) == SubSeq(ConnectSteps, 1, CHOOSE i \in 1..Len(ConnectSteps) : ConnectSteps[i] = s)

\* C17: a connect attempt runs its steps in program order; when a step
\* fails, the discard of the 5-byte acknowledgement included, the attempt
\* ends with that step, leaves the socket unset and goes back to the retry
\* loop's wait; when none fails, all steps run and the socket is set.
C17_ConnectAborts ==
    [][\A c \in 1..Len(heap) :
         AttemptReturns(c) =>
            IF heap'[c].failed = {}
            THEN /\ heap'[c].steps = ConnectSteps
                 /\ heap'[c].conn = "open"
                 /\ heap'[c].bg = "done"
            ELSE /\ \E s \in heap'[c].failed : heap'[c].steps = UpTo(s)
                 /\ heap'[c].conn = "nil"
                 /\ ~IsLinked(heap[c].device)'
                 /\ heap'[c].bg = "select"]_vars

\* C18: a lookup that has read a connection's transaction counter to
\* stamp a message, or is between its first send and its last read on a
\* connection's socket, holds that connection's mutex.
C18_LockHeld ==
    \A t \in Callers :
        /\ th[t].pc = "sm_write" => heap[th[t].sref].lock = t
        /\ \A c \in th[t].wire : heap[c].lock = t

\* A call of Close on connection c is in progress (between its signal and
\* its clearing of the socket).
Closing(c) == \E t \in Threads : th[t].pc = "cc_sock" /\ th[t].cref = c

\* C19: a connection on which Close has been called and has returned
\* holds no socket, ever after.
C19_ClosedTerminal ==
    \A c \in Objs : (heap[c].closeCalled /\ ~Closing(c)) => heap[c].conn = "nil"

\* C20: the mutex whose Unlock executeQuery defers is the mutex it locked;
\* no Unlock hits an unlocked mutex, and a caller outside GetTrack holds no
\* connection's mutex.
C20_UnlockSame ==
    /\ crash # "unlock of unlocked mutex"
    /\ \A t \in Callers :
         /\ th[t].unlockRef # 0 => th[t].unlockRef = th[t].lockRef
         /\ th[t].pc = "idle" => \A c \in Objs : heap[c].lock # t

====
